---------------------------- MODULE Spec2Model ----------------------------
(***************************************************************************)
(* Model of app/vmctl/native/client.go: the native-protocol client of      *)
(* vmctl.  One behaviour of the model is one call of one of the client's   *)
(* operations (Explore, ImportPipe, ExportPipe, GetSourceTenants) on one   *)
(* Client, together with the environment it talks to: the HTTP server, the *)
(* caller that may cancel the context, and the Go scheduler interleaving   *)
(* the goroutines Explore starts.                                          *)
(*                                                                         *)
(* Instants are integers counted in ticks from the model's epoch; there    *)
(* are TicksPerSecond ticks in a second, so an instant may carry a         *)
(* sub-second fraction, which time.Format(time.RFC3339) drops.             *)
(***************************************************************************)
EXTENDS Integers, Sequences, FiniteSets, TLC

(***************************************************************************)
(* Bounds of the model.                                                    *)
(***************************************************************************)
\* resolution of an instant: ticks per second
TicksPerSecond == 2
\* the Filter's end instants are 0 .. MaxWeeks whole weeks after the epoch
MaxWeeks == 2

(***************************************************************************)
(* Program constants.                                                      *)
(***************************************************************************)
StatusOK == 200
StatusNoContent == 204
nativeTenantsAddr == "admin/tenants"
nativeMetricNamesAddr == "api/v1/label/__name__/values"

StepMinute == "minute"
StepHour == "hour"
StepDay == "day"
StepWeek == "week"
StepMonth == "month"
StepYear == "year"
Steps == {StepMinute, StepHour, StepDay, StepWeek, StepMonth, StepYear}

Second == TicksPerSecond
Minute == 60 * Second
Hour == 60 * Minute
Day == 24 * Hour
Week == 7 * Day

Min(a, b) == IF a < b THEN a ELSE b

(***************************************************************************)
(* Errors.  An error value is a record: wrap is the prefix the operation   *)
(* put in front of the cause ("" when there is none), kind the message of  *)
(* the innermost fmt.Errorf or of the library error, code the status code  *)
(* the message carries (0 when none) and text the text it carries.         *)
(***************************************************************************)
Nil == [wrap |-> "", kind |-> "nil", code |-> 0, text |-> ""]
Err(kind, code, text) == [wrap |-> "", kind |-> kind, code |-> code, text |-> text]
Wrap(prefix, e) == [e EXCEPT !.wrap = prefix]
ErrCanceled == Err("context canceled", 0, "")

(***************************************************************************)
(* Time strings of a Filter.  A string is modelled by what parsing sees of *)
(* it: "empty" is the string "", "garbage" a string no parser accepts, and *)
(* "time" a well-formed time denoting the instant t.                       *)
(***************************************************************************)
EmptyString == [kind |-> "empty", t |-> 0]
GarbageString == [kind |-> "garbage", t |-> 0]
TimeString(t) == [kind |-> "time", t |-> t]

\* the instant the time parser gives for the empty string
Now == Week + 1

\* utils.GetTime: [err, t]
GetTime(s) ==
    IF s.kind = "garbage"
    THEN [err |-> Err("cannot parse time", 0, ""), t |-> 0]
    ELSE IF s.kind = "empty"
    THEN [err |-> Nil, t |-> Now]
    ELSE [err |-> Nil, t |-> s.t]

\* time.Time.Format(time.RFC3339): the text has whole seconds only; it is
\* modelled by the instant the text denotes.
FormatRFC3339(t) == t - (t % Second)

StepDuration(step) ==
    CASE step = StepMinute -> Minute
      [] step = StepHour -> Hour
      [] step = StepDay -> Day
      [] step = StepWeek -> Week
      [] step = StepMonth -> 31 * Day
      [] step = StepYear -> 366 * Day
      [] OTHER -> 0

RECURSIVE SplitFrom(_, _, _)
SplitFrom(cur, end, d) ==
    IF end > cur
    THEN LET e == Min(cur + d, end)
         IN <<(<<cur, e>>)>> \o SplitFrom(e, end, d)
    ELSE <<>>

\* stepper.SplitDateRange(start, end, step, false): [err, ranges]
SplitDateRange(start, end, step) ==
    IF start > end
    THEN [err |-> Err("start time should come before end time", 0, ""), ranges |-> <<>>]
    ELSE IF step \notin Steps
    THEN [err |-> Err("failed to parse step value", 0, ""), ranges |-> <<>>]
    ELSE [err |-> Nil, ranges |-> SplitFrom(start, end, StepDuration(step))]


(***************************************************************************)
(* Requests and responses.                                                 *)
(***************************************************************************)
GoodAddr == "http://vm:8428"
\* an address url.Parse rejects (missing protocol scheme)
BadAddr == "://vm"
Addrs == {GoodAddr, BadAddr}

NoReq == [method |-> "", url |-> "", params |-> <<>>, header |-> <<>>, onWire |-> FALSE]

\* http.NewRequestWithContext: [err, req]
NewRequestWithContext(method, u) ==
    IF u = BadAddr \/ (Len(u) >= Len(BadAddr) /\ SubSeq(u, 1, Len(BadAddr)) = BadAddr)
    THEN [err |-> Err("missing protocol scheme", 0, ""), req |-> NoReq]
    ELSE [err |-> Nil,
          req |-> [method |-> method, url |-> u, params |-> <<>>,
                   header |-> <<>>, onWire |-> FALSE]]

\* url.Values.Set
ParamSet(params, k, v) == (k :> v) @@ params

\* auth.Config.SetHeaders(req, true)
SetHeaders(r) == [r EXCEPT !.header = ("Authorization" :> "credentials") @@ @]

\* Bodies a server sends.
BodyUp == "{\"status\":\"success\",\"data\":[\"up\"]}"
BodyGo == "{\"status\":\"success\",\"data\":[\"go_info\",\"up\"]}"
BodyBoom == "boom"

\* How reading a response body from the network ends: to its end, cut short
\* by the server, or aborted because the request's context is done.
Unread == "unread"
ReadOK == "ok"
ReadEOF == "unexpected EOF"
ReadCanceled == "context canceled"

\* the ways a read that ends now can end, ctxDone telling whether the
\* request's context is done
ReadOutcomes(ctxDone) ==
    {ReadOK, ReadEOF} \cup (IF ctxDone THEN {ReadCanceled} ELSE {})

\* json.NewDecoder(body).Decode(&response) on the body b whose read ended as
\* `read`: [err, data]
Decode(b, read) ==
    IF read # ReadOK
    THEN [err |-> Err(read, 0, ""), data |-> <<>>]
    ELSE IF b = BodyUp THEN [err |-> Nil, data |-> <<"up">>]
    ELSE IF b = BodyGo THEN [err |-> Nil, data |-> <<"go_info", "up">>]
    ELSE IF b = "" THEN [err |-> Err("EOF", 0, ""), data |-> <<>>]
    ELSE [err |-> Err("invalid character", 0, ""), data |-> <<>>]

\* What c.HTTPClient.Do hands back: a transport error, or a response with its
\* status code, the body text the server sends, whether closing the body
\* succeeds, and its body not yet read; `read` becomes the way the read of
\* the body ended once the program has read it.
TransportError(cause) ==
    [err |-> cause, status |-> 0, body |-> "", read |-> Unread, closeOK |-> TRUE]
HTTPResponse(status, b, closeOK) ==
    [err |-> Nil, status |-> status, body |-> b, read |-> Unread, closeOK |-> closeOK]
NoOut == TransportError(Nil)

\* the answers to a GET here: status 200 with a list, with a list and a body
\* whose close fails, or with a body that is no JSON, and status 500
SourceResponses ==
    { HTTPResponse(StatusOK, BodyUp, TRUE),
      HTTPResponse(StatusOK, BodyGo, TRUE),
      HTTPResponse(StatusOK, BodyUp, FALSE),
      HTTPResponse(StatusOK, BodyBoom, TRUE),
      HTTPResponse(500, BodyBoom, TRUE) }

\* the answers to the POST of an import here: those, and status 204 with a
\* body whose close succeeds or fails
Responses ==
    SourceResponses \cup { HTTPResponse(StatusNoContent, "", TRUE),
                           HTTPResponse(StatusNoContent, "", FALSE) }

ErrRefused == Err("connection refused", 0, "")

\* The outcomes of one c.HTTPClient.Do(req): a request whose context is
\* already done is not sent and fails with the context's error; one that is
\* in flight when the context is done may still be answered.
Outcomes(r, ctxDone) ==
    IF ~r.onWire
    THEN {TransportError(ErrCanceled)}
    ELSE (IF r.method = "POST" THEN Responses ELSE SourceResponses)
         \cup {TransportError(ErrRefused)}
         \cup (IF ctxDone THEN {TransportError(ErrCanceled)} ELSE {})

\* as doCheck, with the status code not compared
doCheckAnyStatus(out, expSC) ==
    IF out.err # Nil
    THEN [ok |-> FALSE,
          err |-> Err("unexpected error when performing request", 0, out.err.kind),
          body |-> "none"]
    ELSE [ok |-> TRUE, err |-> Nil, body |-> "open"]

\* The part of Client.do after c.HTTPClient.Do has returned `out`, out.read
\* being the way io.ReadAll ended when the status is not the expected one:
\* [ok, err, body], ok when the response is returned, body the state the
\* response body is left in.
doCheck(out, expSC) ==
    IF out.err # Nil
    THEN [ok |-> FALSE,
          err |-> Err("unexpected error when performing request", 0, out.err.kind),
          body |-> "none"]
    ELSE IF out.status # expSC
    THEN IF out.read # ReadOK
         THEN [ok |-> FALSE,
               err |-> Err("failed to read response body for status code",
                           out.status, out.read),
               body |-> "partly read"]
         ELSE [ok |-> FALSE,
               err |-> Err("unexpected response code", out.status, out.body),
               body |-> "read"]
    ELSE [ok |-> TRUE, err |-> Nil, body |-> "open"]

(***************************************************************************)
(* Explore's pure parts.                                                   *)
(***************************************************************************)
\* as ExploreChunk, with the day step not raised to a week
ExploreChunkDayKept(chunk) ==
    IF chunk = StepHour \/ chunk = StepMinute \/ chunk = ""
    THEN StepWeek
    ELSE chunk

\* the chunk Explore splits the interval with
ExploreChunk(chunk) ==
    IF chunk = StepHour \/ chunk = StepMinute \/ chunk = StepDay \/ chunk = ""
    THEN StepWeek
    ELSE chunk

\* as ExploreURL, with the tenant's path never taken
ExploreURLGlobal(addr, tenant) == addr \o "/" \o nativeMetricNamesAddr

\* the URL of a task's request
ExploreURL(addr, tenant) ==
    IF tenant # ""
    THEN addr \o "/select/" \o tenant \o "/prometheus/" \o nativeMetricNamesAddr
    ELSE addr \o "/" \o nativeMetricNamesAddr

\* the query parameters of a task's request; start and end are the task's
\* formatted bounds
ExploreParams(flt, start, end) ==
    LET p1 == IF flt.TimeStart # EmptyString THEN ParamSet(<<>>, "start", start) ELSE <<>>
        p2 == IF flt.TimeEnd # EmptyString THEN ParamSet(p1, "end", end) ELSE p1
    IN ParamSet(p2, "match[]", flt.Match)

\* the query parameters of ExportPipe's request
ExportParams(flt) ==
    LET p1 == ParamSet(<<>>, "match[]", flt.Match)
        p2 == IF flt.TimeStart # EmptyString THEN ParamSet(p1, "start", flt.TimeStart) ELSE p1
    IN IF flt.TimeEnd # EmptyString THEN ParamSet(p2, "end", flt.TimeEnd) ELSE p2

\* the query parameters of GetSourceTenants' request
TenantsParams(flt) ==
    LET p1 == IF flt.TimeStart # EmptyString THEN ParamSet(<<>>, "start", flt.TimeStart) ELSE <<>>
    IN IF flt.TimeEnd # EmptyString THEN ParamSet(p1, "end", flt.TimeEnd) ELSE p1

(***************************************************************************)
(* State.                                                                  *)
(***************************************************************************)
VARIABLES
    op,              \* the operation called
    c,               \* the Client: AuthCfg (TRUE when non-nil) and Addr
    f,               \* the Filter argument
    tenantID,        \* Explore's tenantID argument
    url,             \* the url / dstURL argument of ExportPipe / ImportPipe
    parentCancelled, \* the caller's context is cancelled
    mpc,             \* where the calling goroutine is
    ret,             \* what the operation returned: [val, stream, err]
    exploreChunk,    \* Explore's local exploreChunk
    ranges,          \* Explore's local ranges
    spawned,         \* number of errs.Go calls made so far
    pc,              \* per executor (0: the caller, k: Explore's k-th task): position
    bnd,             \* per task: the start and end strings its closure captured
    req,             \* per executor: the request it built
    ev,              \* per executor: the calls Client.do made, in order
    out,             \* per executor: what c.HTTPClient.Do handed back
    body,            \* per executor: state of the response body
    doRet,           \* per executor: what Client.do returned: [ok, err]
    response,        \* per task: response.MetricNames after decoding
    terr,            \* per task: the error the task function returned
    groupErr,        \* the errgroup's first error
    groupCancelled,  \* the errgroup has cancelled the tasks' shared context
    wpc,             \* where the goroutine calling errs.Wait is
    logged,          \* the error that goroutine logged
    chClosed,        \* metricNamesC is closed
    mn,              \* the value the range loop received last
    metricNames,     \* Explore's local metricNames
    delivered        \* the tasks whose send on metricNamesC completed, in order

vars == <<op, c, f, tenantID, url, parentCancelled, mpc, ret, exploreChunk, ranges,
          spawned, pc, bnd, req, ev, out, body, doRet, response, terr, groupErr,
          groupCancelled, wpc, logged, chClosed, mn, metricNames, delivered>>

inputs == <<op, c, f, tenantID, url>>
exploreLocals == <<exploreChunk, ranges, spawned, bnd, response, terr, groupErr,
                   groupCancelled, wpc, logged, chClosed, mn, metricNames, delivered>>
doState == <<req, ev, out, body, doRet>>

Ops == {"Explore", "ImportPipe", "ExportPipe", "GetSourceTenants"}
Tenants == {"", "42"}
\* the one well-formed start is a fraction of a second after the epoch
StartStrings == {EmptyString, GarbageString, TimeString(1)}
EndStrings == {EmptyString, GarbageString} \cup {TimeString(w * Week) : w \in 0..MaxWeeks}
Filters == [Match : {"up"}, TimeStart : StartStrings, TimeEnd : EndStrings,
            Chunk : Steps \cup {""}]
NoFilter == [Match |-> "up", TimeStart |-> EmptyString, TimeEnd |-> EmptyString, Chunk |-> ""]
NoBnd == [start |-> 0, end |-> 0]
NoRet == [val |-> <<>>, stream |-> FALSE, err |-> Nil]
NoDoRet == [ok |-> FALSE, err |-> Nil]

\* the executors of a call that splits into n ranges
Execs(n) == 0..n
Tasks == 1..Len(ranges)

PlainClient == [AuthCfg |-> FALSE, Addr |-> GoodAddr]

\* The calls: arguments an operation does not read are fixed.
Start ==
    /\ op \in Ops
    /\ c \in [AuthCfg : BOOLEAN, Addr : Addrs]
    /\ f \in Filters
    /\ tenantID \in Tenants
    /\ url \in Addrs \cup {""}
    /\ op = "Explore" => url = ""
    /\ op = "GetSourceTenants" => url = "" /\ tenantID = "" /\ f.Chunk = ""
    /\ op = "ExportPipe" => url # "" /\ c.Addr = GoodAddr /\ tenantID = "" /\ f.Chunk = ""
    /\ op = "ImportPipe" => url # "" /\ c.Addr = GoodAddr /\ tenantID = "" /\ f = NoFilter
    /\ parentCancelled = FALSE
    /\ mpc = "call"
    /\ ret = NoRet
    /\ exploreChunk = ""
    /\ ranges = <<>>
    /\ spawned = 0
    /\ pc = [i \in Execs(0) |-> "idle"]
    /\ bnd = [i \in Execs(0) |-> NoBnd]
    /\ req = [i \in Execs(0) |-> NoReq]
    /\ ev = [i \in Execs(0) |-> <<>>]
    /\ out = [i \in Execs(0) |-> NoOut]
    /\ body = [i \in Execs(0) |-> "none"]
    /\ doRet = [i \in Execs(0) |-> NoDoRet]
    /\ response = [i \in Execs(0) |-> <<>>]
    /\ terr = [i \in Execs(0) |-> Nil]
    /\ groupErr = Nil
    /\ groupCancelled = FALSE
    /\ wpc = "none"
    /\ logged = Nil
    /\ chClosed = FALSE
    /\ mn = <<>>
    /\ metricNames = <<>>
    /\ delivered = <<>>

\* ctx.Done() is ready for executor i: the caller's context for the caller,
\* the errgroup's derived context for a task
ctxDone(i) == parentCancelled \/ (i # 0 /\ groupCancelled)

\* as ExpSC, with status 200 expected of every operation
ExpSCAlwaysOK(o) == StatusOK

\* the status code the operation passes to Client.do
ExpSC(o) == IF o = "ImportPipe" THEN StatusNoContent ELSE StatusOK

\* the operation returns (val, err)
Return(val, stream, err) ==
    /\ mpc' = "return"
    /\ ret' = [val |-> val, stream |-> stream, err |-> err]

(***************************************************************************)
(* The caller cancels its context.                                         *)
(***************************************************************************)
CancelParent ==
    /\ ~parentCancelled
    /\ mpc # "return"
    /\ parentCancelled' = TRUE
    /\ UNCHANGED <<inputs, mpc, ret, pc, exploreLocals, doState>>

(***************************************************************************)
(* Client.do, in two steps: up to the call of c.HTTPClient.Do, and from    *)
(* its return on.                                                          *)
(***************************************************************************)
\* as doCalls, with the headers set after the request is sent
doCallsHeadersLate(authCfg) == <<"Do">> \o (IF authCfg THEN <<"SetHeaders">> ELSE <<>>)

\* as doCalls, with the request sent a second time
doCallsSentTwice(authCfg) == (IF authCfg THEN <<"SetHeaders">> ELSE <<>>) \o <<"Do", "Do">>

\* the calls Client.do makes on the request, in order
doCalls(authCfg) == (IF authCfg THEN <<"SetHeaders">> ELSE <<>>) \o <<"Do">>

DoCall(i) ==
    /\ pc[i] = "do"
    /\ ev' = [ev EXCEPT ![i] = @ \o doCalls(c.AuthCfg)]
    /\ req' = [req EXCEPT ![i] =
                 [(IF c.AuthCfg THEN SetHeaders(@) ELSE @) EXCEPT !.onWire = ~ctxDone(i)]]
    /\ pc' = [pc EXCEPT ![i] = "inflight"]
    /\ UNCHANGED <<inputs, parentCancelled, mpc, ret, exploreLocals, out, body, doRet>>

\* c.HTTPClient.Do returns: do returns the transport error or the response
\* with the expected status; with another status it goes on to read the body
DoReturn(i) ==
    /\ pc[i] = "inflight"
    /\ \E o \in Outcomes(req[i], ctxDone(i)) :
         /\ out' = [out EXCEPT ![i] = o]
         /\ IF o.err = Nil /\ o.status # ExpSC(op)
            THEN /\ body' = [body EXCEPT ![i] = "open"]
                 /\ pc' = [pc EXCEPT ![i] = "readall"]
                 /\ UNCHANGED doRet
            ELSE LET d == doCheck(o, ExpSC(op))
                 IN /\ doRet' = [doRet EXCEPT ![i] = [ok |-> d.ok, err |-> d.err]]
                    /\ body' = [body EXCEPT ![i] = d.body]
                    /\ pc' = [pc EXCEPT ![i] = "afterdo"]
    /\ UNCHANGED <<inputs, parentCancelled, mpc, ret, exploreLocals, req, ev>>

\* io.ReadAll(resp.Body) ends, as the context allows at that moment, and do
\* returns its error
DoReadAll(i) ==
    /\ pc[i] = "readall"
    /\ \E rd \in ReadOutcomes(ctxDone(i)) :
         LET o == [out[i] EXCEPT !.read = rd]
             d == doCheck(o, ExpSC(op))
         IN /\ out' = [out EXCEPT ![i] = o]
            /\ doRet' = [doRet EXCEPT ![i] = [ok |-> d.ok, err |-> d.err]]
            /\ body' = [body EXCEPT ![i] = d.body]
    /\ pc' = [pc EXCEPT ![i] = "afterdo"]
    /\ UNCHANGED <<inputs, parentCancelled, mpc, ret, exploreLocals, req, ev>>

(***************************************************************************)
(* Explore.                                                                *)
(***************************************************************************)
\* as exploreRanges, with the error of SplitDateRange dropped
exploreRangesSplitErrDropped(flt) ==
    LET chunk == ExploreChunk(flt.Chunk)
        s == GetTime(flt.TimeStart)
        e == GetTime(flt.TimeEnd)
        r == SplitDateRange(s.t, e.t, chunk)
    IN IF s.err # Nil
       THEN [err |-> Wrap("failed to parse time start for explore metrics", s.err),
             chunk |-> chunk, ranges |-> <<>>]
       ELSE IF e.err # Nil
       THEN [err |-> Wrap("failed to parse time end for explore metrics", e.err),
             chunk |-> chunk, ranges |-> <<>>]
       ELSE [err |-> Nil, chunk |-> chunk, ranges |-> r.ranges]

\* Explore up to the loop over ranges: the chunk, the two instants and the
\* ranges, or the error Explore returns: [err, chunk, ranges]
exploreRanges(flt) ==
    LET chunk == ExploreChunk(flt.Chunk)
        s == GetTime(flt.TimeStart)
        e == GetTime(flt.TimeEnd)
        r == SplitDateRange(s.t, e.t, chunk)
    IN IF s.err # Nil
       THEN [err |-> Wrap("failed to parse time start for explore metrics", s.err),
             chunk |-> chunk, ranges |-> <<>>]
       ELSE IF e.err # Nil
       THEN [err |-> Wrap("failed to parse time end for explore metrics", e.err),
             chunk |-> chunk, ranges |-> <<>>]
       ELSE IF r.err # Nil
       THEN [err |-> Wrap("failed to create date ranges for explore metrics", r.err),
             chunk |-> chunk, ranges |-> <<>>]
       ELSE [err |-> Nil, chunk |-> chunk, ranges |-> r.ranges]

ExploreStart ==
    /\ op = "Explore"
    /\ mpc = "call"
    /\ LET x == exploreRanges(f)
           n == Len(x.ranges)
       IN /\ exploreChunk' = x.chunk
          /\ IF x.err # Nil
             THEN /\ Return(<<>>, FALSE, x.err)
                  /\ UNCHANGED <<ranges, pc, bnd, req, ev, out, body, doRet, response, terr>>
             ELSE /\ ranges' = x.ranges
                  /\ mpc' = "spawn"
                  /\ pc' = [i \in Execs(n) |-> "idle"]
                  /\ bnd' = [i \in Execs(n) |-> NoBnd]
                  /\ req' = [i \in Execs(n) |-> NoReq]
                  /\ ev' = [i \in Execs(n) |-> <<>>]
                  /\ out' = [i \in Execs(n) |-> NoOut]
                  /\ body' = [i \in Execs(n) |-> "none"]
                  /\ doRet' = [i \in Execs(n) |-> NoDoRet]
                  /\ response' = [i \in Execs(n) |-> <<>>]
                  /\ terr' = [i \in Execs(n) |-> Nil]
                  /\ UNCHANGED ret
    /\ UNCHANGED <<inputs, parentCancelled, spawned, groupErr, groupCancelled, wpc,
                   logged, chClosed, mn, metricNames, delivered>>

\* as TaskBounds, with every closure seeing the last iteration's strings
TaskBoundsShared(rs, k) ==
    [start |-> FormatRFC3339(rs[Len(rs)][1]), end |-> FormatRFC3339(rs[Len(rs)][2])]

\* the strings one iteration of the loop over ranges hands to its closure
TaskBounds(rs, k) ==
    [start |-> FormatRFC3339(rs[k][1]), end |-> FormatRFC3339(rs[k][2])]

\* one iteration of the loop over ranges: errs.Go starts the task
Spawn ==
    /\ mpc = "spawn"
    /\ spawned < Len(ranges)
    /\ spawned' = spawned + 1
    /\ bnd' = [bnd EXCEPT ![spawned + 1] = TaskBounds(ranges, spawned + 1)]
    /\ pc' = [pc EXCEPT ![spawned + 1] = "build"]
    /\ UNCHANGED <<inputs, parentCancelled, mpc, ret, exploreChunk, ranges, response, terr,
                   groupErr, groupCancelled, wpc, logged, chClosed, mn, metricNames,
                   delivered, doState>>

\* as GoWait, with the goroutine that waits and closes not started
GoWaitNoWaiter ==
    /\ mpc = "spawn"
    /\ spawned = Len(ranges)
    /\ mpc' = "recv"
    /\ UNCHANGED <<inputs, parentCancelled, ret, exploreChunk, ranges, spawned, pc, bnd,
                   response, terr, groupErr, groupCancelled, wpc, logged, chClosed, mn,
                   metricNames, delivered, doState>>

\* after the loop: the goroutine that waits is started, the range loop begins
GoWait ==
    /\ mpc = "spawn"
    /\ spawned = Len(ranges)
    /\ wpc' = "wait"
    /\ mpc' = "recv"
    /\ UNCHANGED <<inputs, parentCancelled, ret, exploreChunk, ranges, spawned, pc, bnd,
                   response, terr, groupErr, groupCancelled, logged, chClosed, mn,
                   metricNames, delivered, doState>>

\* A task function returns e: the errgroup keeps the first non-nil error and
\* cancels the shared context when it gets it.
groupAfter(e) ==
    IF e # Nil /\ groupErr = Nil
    THEN [err |-> e, cancelled |-> TRUE]
    ELSE [err |-> groupErr, cancelled |-> groupCancelled]

TaskReturn(i, e) ==
    /\ pc' = [pc EXCEPT ![i] = "done"]
    /\ terr' = [terr EXCEPT ![i] = e]
    /\ groupErr' = groupAfter(e).err
    /\ groupCancelled' = groupAfter(e).cancelled

\* a task builds its request
TaskBuild(i) ==
    /\ i \in Tasks
    /\ pc[i] = "build"
    /\ LET u == ExploreURL(c.Addr, tenantID)
           nr == NewRequestWithContext("GET", u)
       IN IF nr.err # Nil
          THEN /\ TaskReturn(i, Wrap("cannot create request", nr.err))
               /\ UNCHANGED req
          ELSE /\ req' = [req EXCEPT ![i] =
                            [nr.req EXCEPT !.params =
                                ExploreParams(f, bnd[i].start, bnd[i].end)]]
               /\ pc' = [pc EXCEPT ![i] = "do"]
               /\ UNCHANGED <<terr, groupErr, groupCancelled>>
    /\ UNCHANGED <<inputs, parentCancelled, mpc, ret, exploreChunk, ranges, spawned, bnd,
                   response, wpc, logged, chClosed, mn, metricNames, delivered,
                   ev, out, body, doRet>>

\* as taskAfterDo, with the failure of Body.Close ignored
taskAfterDoCloseIgnored(dr, o) ==
    LET d == Decode(o.body, o.read)
    IN IF ~dr.ok
       THEN [err |-> Wrap("series request failed", dr.err), data |-> <<>>, closed |-> FALSE]
       ELSE IF d.err # Nil
       THEN [err |-> Wrap("cannot decode series response", d.err), data |-> <<>>,
             closed |-> FALSE]
       ELSE [err |-> Nil, data |-> d.data, closed |-> TRUE]

\* a task after Client.do, o.read being the way the decoder's read of the
\* body ended: the error check, the decoding, the close: [err, data, closed]
taskAfterDo(dr, o) ==
    LET d == Decode(o.body, o.read)
    IN IF ~dr.ok
       THEN [err |-> Wrap("series request failed", dr.err), data |-> <<>>, closed |-> FALSE]
       ELSE IF d.err # Nil
       THEN [err |-> Wrap("cannot decode series response", d.err), data |-> <<>>,
             closed |-> FALSE]
       ELSE IF ~o.closeOK
       THEN [err |-> Wrap("cannot close series response body", Err("close failed", 0, "")),
             data |-> d.data, closed |-> TRUE]
       ELSE [err |-> Nil, data |-> d.data, closed |-> TRUE]

\* the read of a body that ends now, for an executor back from Client.do:
\* a body is read only when do returned its response
BodyReads(i) == IF doRet[i].ok THEN ReadOutcomes(ctxDone(i)) ELSE {out[i].read}

\* lines 94-106: the decoder's read of the body ends as the context allows
\* at that moment
TaskDecode(i) ==
    /\ i \in Tasks
    /\ pc[i] = "afterdo"
    /\ \E rd \in BodyReads(i) :
       LET o == [out[i] EXCEPT !.read = rd]
           r == taskAfterDo(doRet[i], o)
       IN /\ out' = [out EXCEPT ![i] = o]
          /\ response' = [response EXCEPT ![i] = r.data]
          /\ body' = [body EXCEPT ![i] = IF r.closed THEN "closed" ELSE @]
          /\ IF r.err # Nil
             THEN TaskReturn(i, r.err)
             ELSE /\ pc' = [pc EXCEPT ![i] = "select"]
                  /\ UNCHANGED <<terr, groupErr, groupCancelled>>
    /\ UNCHANGED <<inputs, parentCancelled, mpc, ret, exploreChunk, ranges, spawned, bnd,
                   wpc, logged, chClosed, mn, metricNames, delivered, req, ev, doRet>>

\* the select: the send completes when the range loop is receiving, the
\* other case is ready when the shared context is done
TaskSelect(i) ==
    /\ i \in Tasks
    /\ pc[i] = "select"
    /\ \/ /\ mpc = "recv"
          /\ ~chClosed
          /\ mn' = response[i]
          /\ mpc' = "append"
          /\ delivered' = Append(delivered, i)
          /\ TaskReturn(i, Nil)
       \/ /\ ctxDone(i)
          /\ TaskReturn(i, ErrCanceled)
          /\ UNCHANGED <<mn, mpc, delivered>>
    /\ UNCHANGED <<inputs, parentCancelled, ret, exploreChunk, ranges, spawned, bnd,
                   response, wpc, logged, chClosed, metricNames, doState>>

\* as WaiterWait, with errs.Wait returning as soon as one task has returned
WaiterWaitForOne ==
    /\ wpc = "wait"
    /\ \E i \in Tasks : pc[i] = "done"
    /\ groupCancelled' = TRUE
    /\ logged' = groupErr
    /\ wpc' = "close"
    /\ UNCHANGED <<inputs, parentCancelled, mpc, ret, exploreChunk, ranges, spawned, pc,
                   bnd, response, terr, groupErr, chClosed, mn, metricNames, delivered,
                   doState>>

\* errs.Wait returns once every task has returned; it cancels the shared
\* context and hands back the first error, which is logged
WaiterWait ==
    /\ wpc = "wait"
    /\ \A i \in Tasks : pc[i] = "done"
    /\ groupCancelled' = TRUE
    /\ logged' = groupErr
    /\ wpc' = "close"
    /\ UNCHANGED <<inputs, parentCancelled, mpc, ret, exploreChunk, ranges, spawned, pc,
                   bnd, response, terr, groupErr, chClosed, mn, metricNames, delivered,
                   doState>>

\* as WaiterClose, with the close left out
WaiterCloseForgotten ==
    /\ wpc = "close"
    /\ wpc' = "done"
    /\ UNCHANGED <<inputs, parentCancelled, mpc, ret, exploreChunk, ranges, spawned, pc,
                   bnd, response, terr, groupErr, groupCancelled, logged, chClosed, mn,
                   metricNames, delivered, doState>>

\* close(metricNamesC)
WaiterClose ==
    /\ wpc = "close"
    /\ chClosed' = TRUE
    /\ wpc' = "done"
    /\ UNCHANGED <<inputs, parentCancelled, mpc, ret, exploreChunk, ranges, spawned, pc,
                   bnd, response, terr, groupErr, groupCancelled, logged, mn, metricNames,
                   delivered, doState>>

\* as ConsumerAppend, with the received list assigned instead of appended
ConsumerAppendOverwrite ==
    /\ mpc = "append"
    /\ metricNames' = mn
    /\ mn' = <<>>
    /\ mpc' = "recv"
    /\ UNCHANGED <<inputs, parentCancelled, ret, exploreChunk, ranges, spawned, pc, bnd,
                   response, terr, groupErr, groupCancelled, wpc, logged, chClosed,
                   delivered, doState>>

\* the body of the range loop
ConsumerAppend ==
    /\ mpc = "append"
    /\ metricNames' = metricNames \o mn
    /\ mn' = <<>>
    /\ mpc' = "recv"
    /\ UNCHANGED <<inputs, parentCancelled, ret, exploreChunk, ranges, spawned, pc, bnd,
                   response, terr, groupErr, groupCancelled, wpc, logged, chClosed,
                   delivered, doState>>

\* as exploreResult, with the error of errs.Wait returned instead of logged
exploreResultWaitErr(names, waitErr) == [val |-> names, err |-> waitErr]

\* what Explore returns after the range loop: [val, err]
exploreResult(names, waitErr) == [val |-> names, err |-> Nil]

\* the range loop ends on the closed channel and Explore returns
ConsumerEnd ==
    /\ mpc = "recv"
    /\ chClosed
    /\ Return(exploreResult(metricNames, logged).val, FALSE,
              exploreResult(metricNames, logged).err)
    /\ UNCHANGED <<inputs, parentCancelled, pc, exploreLocals, doState>>

(***************************************************************************)
(* GetSourceTenants, ExportPipe, ImportPipe: the caller is executor 0.     *)
(***************************************************************************)
\* the request is built; the operation goes on to Client.do, or returns the
\* error of http.NewRequestWithContext
SingleStart(nr, r, prefix) ==
    /\ mpc = "call"
    /\ IF nr.err # Nil
       THEN /\ Return(<<>>, FALSE, Wrap(prefix, nr.err))
            /\ UNCHANGED <<pc, req>>
       ELSE /\ req' = [req EXCEPT ![0] = r]
            /\ pc' = [pc EXCEPT ![0] = "do"]
            /\ mpc' = "running"
            /\ UNCHANGED ret
    /\ UNCHANGED <<inputs, parentCancelled, exploreLocals, ev, out, body, doRet>>

GetSourceTenantsStart ==
    /\ op = "GetSourceTenants"
    /\ LET nr == NewRequestWithContext("GET", c.Addr \o "/" \o nativeTenantsAddr)
       IN SingleStart(nr, [nr.req EXCEPT !.params = TenantsParams(f)], "cannot create request")

\* as tenantsAfterDo, with the tenants decoded so far returned beside a
\* close error
tenantsAfterDoPartial(dr, o) ==
    LET d == Decode(o.body, o.read)
    IN IF ~dr.ok
       THEN [err |-> Wrap("tenants request failed", dr.err), val |-> <<>>, closed |-> FALSE]
       ELSE IF d.err # Nil
       THEN [err |-> Wrap("cannot decode tenants response", d.err), val |-> <<>>,
             closed |-> FALSE]
       ELSE IF ~o.closeOK
       THEN [err |-> Wrap("cannot close tenants response body", Err("close failed", 0, "")),
             val |-> d.data, closed |-> TRUE]
       ELSE [err |-> Nil, val |-> d.data, closed |-> TRUE]

\* GetSourceTenants after Client.do, o.read being the way the decoder's read
\* of the body ended: the error check, the decoding, the close:
\* [err, val, closed]
tenantsAfterDo(dr, o) ==
    LET d == Decode(o.body, o.read)
    IN IF ~dr.ok
       THEN [err |-> Wrap("tenants request failed", dr.err), val |-> <<>>, closed |-> FALSE]
       ELSE IF d.err # Nil
       THEN [err |-> Wrap("cannot decode tenants response", d.err), val |-> <<>>,
             closed |-> FALSE]
       ELSE IF ~o.closeOK
       THEN [err |-> Wrap("cannot close tenants response body", Err("close failed", 0, "")),
             val |-> <<>>, closed |-> TRUE]
       ELSE [err |-> Nil, val |-> d.data, closed |-> TRUE]

GetSourceTenantsFinish ==
    /\ op = "GetSourceTenants"
    /\ pc[0] = "afterdo"
    /\ \E rd \in BodyReads(0) :
       LET o == [out[0] EXCEPT !.read = rd]
           r == tenantsAfterDo(doRet[0], o)
       IN /\ out' = [out EXCEPT ![0] = o]
          /\ Return(r.val, FALSE, r.err)
          /\ body' = [body EXCEPT ![0] = IF r.closed THEN "closed" ELSE @]
    /\ pc' = [pc EXCEPT ![0] = "done"]
    /\ UNCHANGED <<inputs, parentCancelled, exploreLocals, req, ev, doRet>>

\* as exportRequest, with the Accept-Encoding header set only for a Filter
\* with a start time
exportRequestHeaderWithStart(r, flt) ==
    [r EXCEPT !.params = ExportParams(flt),
              !.header = IF flt.TimeStart # EmptyString
                         THEN ("Accept-Encoding" :> "identity") @@ @
                         ELSE @]

\* the request ExportPipe makes of the new request r: the query parameters
\* and the Accept-Encoding header
exportRequest(r, flt) ==
    [r EXCEPT !.params = ExportParams(flt),
              !.header = ("Accept-Encoding" :> "identity") @@ @]

ExportPipeStart ==
    /\ op = "ExportPipe"
    /\ LET nr == NewRequestWithContext("GET", url)
       IN SingleStart(nr, exportRequest(nr.req, f), "cannot create request")

ExportPipeFinish ==
    /\ op = "ExportPipe"
    /\ pc[0] = "afterdo"
    /\ IF ~doRet[0].ok
       THEN Return(<<>>, FALSE, Wrap("export request failed", doRet[0].err))
       ELSE Return(<<>>, TRUE, Nil)
    /\ pc' = [pc EXCEPT ![0] = "done"]
    /\ UNCHANGED <<inputs, parentCancelled, exploreLocals, doState>>

ImportPipeStart ==
    /\ op = "ImportPipe"
    /\ LET nr == NewRequestWithContext("POST", url)
       IN SingleStart(nr, nr.req, "cannot create import request")

\* as importAfterDo, with the result of Body.Close dropped
importAfterDoCloseDropped(dr, o) ==
    IF ~dr.ok
    THEN [err |-> Wrap("import request failed", dr.err), closed |-> FALSE]
    ELSE [err |-> Nil, closed |-> TRUE]

\* ImportPipe after Client.do: the error check and the close: [err, closed]
importAfterDo(dr, o) ==
    IF ~dr.ok
    THEN [err |-> Wrap("import request failed", dr.err), closed |-> FALSE]
    ELSE IF ~o.closeOK
    THEN [err |-> Wrap("cannot close import response body", Err("close failed", 0, "")),
          closed |-> TRUE]
    ELSE [err |-> Nil, closed |-> TRUE]

ImportPipeFinish ==
    /\ op = "ImportPipe"
    /\ pc[0] = "afterdo"
    /\ LET r == importAfterDo(doRet[0], out[0])
       IN /\ Return(<<>>, FALSE, r.err)
          /\ body' = [body EXCEPT ![0] = IF r.closed THEN "closed" ELSE @]
    /\ pc' = [pc EXCEPT ![0] = "done"]
    /\ UNCHANGED <<inputs, parentCancelled, exploreLocals, req, ev, out, doRet>>

(***************************************************************************)
(* The specification.                                                      *)
(***************************************************************************)
\* every step but the caller's cancellation
Progress ==
    \/ ExploreStart
    \/ Spawn
    \/ GoWait
    \/ \E i \in DOMAIN pc : TaskBuild(i)
    \/ \E i \in DOMAIN pc : DoCall(i)
    \/ \E i \in DOMAIN pc : DoReturn(i)
    \/ \E i \in DOMAIN pc : DoReadAll(i)
    \/ \E i \in DOMAIN pc : TaskDecode(i)
    \/ \E i \in DOMAIN pc : TaskSelect(i)
    \/ WaiterWait
    \/ WaiterClose
    \/ ConsumerAppend
    \/ ConsumerEnd
    \/ GetSourceTenantsStart
    \/ GetSourceTenantsFinish
    \/ ExportPipeStart
    \/ ExportPipeFinish
    \/ ImportPipeStart
    \/ ImportPipeFinish

Next == CancelParent \/ Progress

\* Explore's client and tenant are varied for the unset chunk
Init == Start /\ (op = "Explore" => f.Chunk = "")
Spec == Init /\ [][Next]_vars

\* Explore's chunk is varied for the plain client and the default tenant
ChunkInit == Start /\ (op = "Explore" => c = PlainClient /\ tenantID = "")
ChunkSpec == ChunkInit /\ [][Next]_vars

\* The scheduler runs every goroutine that can run, and every HTTP exchange
\* ends: a step of the program that stays possible is eventually taken.
FairInit == Start /\ (op = "Explore" => f.Chunk = "" /\ c = PlainClient /\ tenantID = "")
FairSpec == FairInit /\ [][Next]_vars /\ WF_vars(Progress)

(***************************************************************************)
(* Properties.                                                             *)
(***************************************************************************)
ExploreReturned == op = "Explore" /\ mpc = "return"

\* the Filter's times do not parse, or its end is before its start
InputsRejected ==
    \/ GetTime(f.TimeStart).err # Nil
    \/ GetTime(f.TimeEnd).err # Nil
    \/ GetTime(f.TimeStart).t > GetTime(f.TimeEnd).t

InputErrors ==
    { "failed to parse time start for explore metrics",
      "failed to parse time end for explore metrics",
      "failed to create date ranges for explore metrics" }

\* the k-th sub-range's request got status 200 with a body that decodes and
\* closes
RequestSucceeded(k) ==
    /\ out[k].err = Nil
    /\ out[k].status = 200
    /\ out[k].body \in {BodyUp, BodyGo}
    /\ out[k].read = ReadOK
    /\ out[k].closeOK

Range(s) == {s[k] : k \in DOMAIN s}

\* C1: once the times parsed and the interval split, Explore returns a nil
\* error whatever its tasks returned; the only errors Explore returns are the
\* time-parse and range-split errors.
C1_ExploreReturnsOnlyInputErrors ==
    ExploreReturned =>
        /\ (ret.err # Nil) <=> InputsRejected
        /\ ret.err # Nil => ret.err.wrap \in InputErrors
        /\ \A k \in Tasks : ret.err # terr[k] \/ terr[k] = Nil

\* C1's case: Explore has returned nil although two of its tasks returned
\* errors of different causes
C1_Witness ==
    /\ ExploreReturned
    /\ ret.err = Nil
    /\ \E j, k \in Tasks :
         /\ terr[j].wrap = "series request failed"
         /\ terr[j].kind = "unexpected response code"
         /\ terr[k].wrap = "cannot decode series response"

\* C2: when every sub-range's request failed, Explore returns an empty list
\* and no error.
C2_AllFailedGivesEmptyList ==
    (ExploreReturned /\ wpc = "done" /\ \A k \in Tasks : ~RequestSucceeded(k)) =>
        ret.val = <<>> /\ ret.err = Nil

\* C2's case: two sub-ranges, one answered 200 with a body whose close fails,
\* the other not answered 200, and Explore has returned
C2_Witness ==
    /\ ExploreReturned
    /\ wpc = "done"
    /\ Len(ranges) >= 2
    /\ \A k \in Tasks : ~RequestSucceeded(k)
    /\ \E j, k \in Tasks :
         /\ out[j].status = 200 /\ ~out[j].closeOK
         /\ out[k].err = Nil /\ out[k].status # 200

\* C3 as claimed: Explore returns the union of the names of the sub-ranges
\* whose request succeeded, and no error, whatever the interleaving (the
\* caller not cancelling).
C3_UnionOfSuccessfulRanges ==
    (ExploreReturned /\ wpc = "done" /\ ~parentCancelled) =>
        /\ ret.err = Nil
        /\ Range(ret.val) =
             UNION { Range(Decode(out[k].body, out[k].read).data) :
                       k \in {j \in Tasks : RequestSucceeded(j)} }

\* C4: once the caller's context is cancelled during an Explore call, the
\* call eventually returns.
C4_CancelledExploreReturns ==
    (op = "Explore" /\ parentCancelled) ~> (mpc = "return")

\* C4's case: the caller cancelled, a task that held a decoded list gave up
\* its delivery on the cancellation alone, and Explore has returned
C4_Witness ==
    /\ ExploreReturned
    /\ parentCancelled
    /\ groupErr = ErrCanceled
    /\ \E k \in Tasks : terr[k] = ErrCanceled /\ response[k] # <<>>

\* number of c.HTTPClient.Do calls among the calls e
DoCount(e) == Cardinality({n \in DOMAIN e : e[n] = "Do"})

\* C5 as claimed: N tasks, N requests, the k-th carrying the start and end of
\* the k-th sub-range.
C5_EachRequestCarriesItsRange ==
    (ExploreReturned /\ wpc = "done") =>
        /\ spawned = Len(ranges)
        /\ \A k \in Tasks :
             /\ DoCount(ev[k]) = 1
             /\ DOMAIN req[k].params = {"start", "end", "match[]"}
             /\ req[k].params["start"] = ranges[k][1]
             /\ req[k].params["end"] = ranges[k][2]

WholeSeconds(t) == (t \div TicksPerSecond) * TicksPerSecond

\* the parameters the k-th request is to carry
ExpectedKeys ==
    {"match[]"} \cup (IF f.TimeStart.kind # "empty" THEN {"start"} ELSE {})
                \cup (IF f.TimeEnd.kind # "empty" THEN {"end"} ELSE {})
ExpectedParams(k) ==
    [p \in ExpectedKeys |->
        IF p = "start" THEN WholeSeconds(ranges[k][1])
        ELSE IF p = "end" THEN WholeSeconds(ranges[k][2])
        ELSE f.Match]

\* C5 (amended): one task per sub-range; a task hands at most one request to
\* the HTTP client, and exactly one unless its request cannot be built; the
\* k-th request carries the k-th sub-range's start and end, in whole seconds,
\* each only when the Filter has that time.
C5_EachRangeQueriedOnce ==
    op = "Explore" =>
        /\ spawned <= Len(ranges)
        /\ mpc \in {"recv", "append"} \/ (mpc = "return" /\ ret.err = Nil)
             => spawned = Len(ranges)
        /\ \A k \in Tasks :
             /\ pc[k] = "idle" <=> k > spawned
             /\ DoCount(ev[k]) <= 1
             /\ pc[k] \in {"inflight", "readall", "afterdo", "select"} => DoCount(ev[k]) = 1
             /\ (pc[k] = "done" /\ c.Addr # BadAddr) => DoCount(ev[k]) = 1
             /\ DoCount(ev[k]) = 1 => req[k].params = ExpectedParams(k)

\* C5's case: two sub-ranges of a Filter with both times, both queried, one
\* of the two tasks failed, and Explore has returned
C5_Witness ==
    /\ ExploreReturned
    /\ Len(ranges) = 2
    /\ f.TimeStart.kind = "time" /\ f.TimeEnd.kind = "time"
    /\ DoCount(ev[1]) = 1 /\ DoCount(ev[2]) = 1
    /\ req[1].params # req[2].params
    /\ terr[1] # Nil /\ terr[2] = Nil

\* C6: when the times do not parse or the interval does not split, Explore
\* returns that error and a nil list, and has started no task and sent no
\* request.
C6_InputErrorsBeforeAnyRequest ==
    (op = "Explore" /\ (ret.err # Nil \/ (InputsRejected /\ mpc # "call"))) =>
        /\ InputsRejected
        /\ mpc = "return"
        /\ ret.val = <<>>
        /\ ret.err.wrap \in InputErrors
        /\ f.TimeStart.kind = "garbage"
             <=> ret.err.wrap = "failed to parse time start for explore metrics"
        /\ spawned = 0
        /\ wpc = "none"
        /\ \A i \in DOMAIN pc : pc[i] = "idle" /\ ev[i] = <<>> /\ req[i] = NoReq

\* C6's case: the end is before the start and Explore has returned the
\* range-split error
C6_Witness ==
    /\ ExploreReturned
    /\ f.TimeStart.kind = "time" /\ f.TimeEnd.kind = "time"
    /\ f.TimeStart.t > f.TimeEnd.t
    /\ ret.err.wrap = "failed to create date ranges for explore metrics"

\* the chunk Explore is to split with
FloorChunk == IF f.Chunk \in {"", "minute", "hour", "day"} THEN "week" ELSE f.Chunk

C7_Partition ==
    (op = "Explore" /\ mpc # "call") =>
        /\ exploreChunk = FloorChunk
        /\ ret.err = Nil =>
             /\ ranges = SplitDateRange(GetTime(f.TimeStart).t, GetTime(f.TimeEnd).t,
                                        FloorChunk).ranges
             /\ FloorChunk = "week" =>
                  \A k \in DOMAIN ranges :
                      /\ ranges[k][2] - ranges[k][1] <= 7 * 24 * 3600 * TicksPerSecond
                      /\ k < Len(ranges) =>
                           ranges[k][2] - ranges[k][1] = 7 * 24 * 3600 * TicksPerSecond

\* C7: Explore splits the interval by weeks when the Filter's chunk is "",
\* minute, hour or day, and by the Filter's chunk when it is week, month or
\* year; the Filter is not changed.
C7_WeekIsTheSmallestChunk == []C7_Partition /\ [][f' = f]_vars

\* C7's case: a Filter with chunk day over two weeks, split into two ranges
C7_Witness ==
    /\ ExploreReturned
    /\ f.Chunk = "day"
    /\ Len(ranges) = 2
    /\ exploreChunk = "week"

\* C8: every request of one Explore call has the tenant's path when tenantID
\* is not empty, and the global path when it is.
C8_OnePathPerCall ==
    op = "Explore" =>
        \A k \in Tasks :
            req[k] # NoReq =>
                req[k].url =
                    IF tenantID # ""
                    THEN c.Addr \o "/select/" \o tenantID
                                \o "/prometheus/api/v1/label/__name__/values"
                    ELSE c.Addr \o "/api/v1/label/__name__/values"

\* C8's case: a tenant is given and two tasks have sent their requests
C8_Witness ==
    /\ op = "Explore"
    /\ tenantID = "42"
    /\ Len(ranges) = 2
    /\ DoCount(ev[1]) = 1 /\ DoCount(ev[2]) = 1
    /\ req[1].url = "http://vm:8428/select/42/prometheus/api/v1/label/__name__/values"

\* Client.do has returned for executor i
DoReturned(i) == pc[i] \in {"afterdo", "select", "done"} /\ DoCount(ev[i]) = 1
Expected == IF op = "ImportPipe" THEN 204 ELSE 200
Mismatch(i) == out[i].err = Nil /\ out[i].status # Expected

C9_ResponseOrTransportError(i) ==
    /\ doRet[i].ok <=> (out[i].err = Nil /\ out[i].status = Expected)
    /\ doRet[i].ok <=> doRet[i].err = Nil
    /\ out[i].err # Nil =>
         /\ doRet[i].err.kind = "unexpected error when performing request"
         /\ doRet[i].err.text = out[i].err.kind
         /\ body[i] = "none"

\* C9 as claimed: a response exactly when the transport succeeded with the
\* expected status; on a transport failure an error wrapping the cause; on
\* another status the body read whole and an error with the status code and
\* the body text.
C9_DoContract ==
    \A i \in DOMAIN pc :
        DoReturned(i) =>
            /\ C9_ResponseOrTransportError(i)
            /\ Mismatch(i) =>
                 /\ body[i] = "read"
                 /\ doRet[i].err.code = out[i].status
                 /\ doRet[i].err.text = out[i].body

\* C9 (amended): as claimed, but on another status the error has the status
\* code and the body text only when the body could be read to its end; when
\* reading it fails the error has the status code and the read failure.
C9_DoContractReadable ==
    \A i \in DOMAIN pc :
        DoReturned(i) =>
            /\ C9_ResponseOrTransportError(i)
            /\ (Mismatch(i) /\ out[i].read = ReadOK) =>
                 /\ body[i] = "read"
                 /\ doRet[i].err.kind = "unexpected response code"
                 /\ doRet[i].err.code = out[i].status
                 /\ doRet[i].err.text = out[i].body
            /\ (Mismatch(i) /\ out[i].read # ReadOK) =>
                 /\ body[i] # "read"
                 /\ doRet[i].err.kind = "failed to read response body for status code"
                 /\ doRet[i].err.code = out[i].status
                 /\ doRet[i].err.text # out[i].body

\* C9's case: ImportPipe got status 200 where 204 is expected, and do
\* returned the error with the code and the body
C9_Witness ==
    /\ op = "ImportPipe"
    /\ DoReturned(0)
    /\ out[0].status = 200
    /\ ~doRet[0].ok
    /\ doRet[0].err.code = 200
    /\ doRet[0].err.text = BodyUp

\* C10: with an auth configuration, do calls SetHeaders once for a request,
\* before it sends it; without one, never.
C10_HeadersSetOnceBeforeSend ==
    \A i \in DOMAIN pc :
        /\ ev[i] \in {<<>>, IF c.AuthCfg THEN <<"SetHeaders", "Do">> ELSE <<"Do">>}
        /\ pc[i] \in {"inflight", "readall", "afterdo", "select"} => ev[i] # <<>>
        /\ ev[i] # <<>> => (c.AuthCfg <=> "Authorization" \in DOMAIN req[i].header)

\* C10's case: an auth configuration, and two tasks of one Explore call have
\* each sent their request
C10_Witness ==
    /\ op = "Explore"
    /\ c.AuthCfg
    /\ Len(ranges) = 2
    /\ ev[1] = <<"SetHeaders", "Do">>
    /\ ev[2] = <<"SetHeaders", "Do">>

\* ImportPipe has returned after a call of Client.do
ImportDone == op = "ImportPipe" /\ mpc = "return" /\ DoCount(ev[0]) = 1

C11_NilOnlyOn204 ==
    /\ ret.err = Nil <=> (out[0].err = Nil /\ out[0].status = 204 /\ out[0].closeOK)
    /\ (out[0].err = Nil /\ out[0].status # 204) =>
         /\ ret.err # Nil
         /\ ret.err.wrap = "import request failed"
         /\ ret.err.code = out[0].status

\* C11 as claimed: ImportPipe returns an error for every status but 204 and
\* the error has the response body text; it returns nil only for status 204
\* with the body closed successfully.
C11_ImportErrorHasBody ==
    ImportDone =>
        /\ C11_NilOnlyOn204
        /\ (out[0].err = Nil /\ out[0].status # 204) => ret.err.text = out[0].body

\* C11 (amended): as claimed, but the error has the response body text only
\* when the body could be read to its end; when reading it fails the error
\* has the status code and the read failure.
C11_ImportErrorHasReadableBody ==
    ImportDone =>
        /\ C11_NilOnlyOn204
        /\ (out[0].err = Nil /\ out[0].status # 204 /\ out[0].read = ReadOK) =>
             ret.err.text = out[0].body
        /\ (out[0].err = Nil /\ out[0].status # 204 /\ out[0].read # ReadOK) =>
             /\ ret.err.kind = "failed to read response body for status code"
             /\ ret.err.text # out[0].body

\* C11's case: the destination answered 200 with a body, and ImportPipe has
\* returned the error with that body
C11_Witness ==
    /\ ImportDone
    /\ out[0].err = Nil /\ out[0].status = 200 /\ out[0].body = BodyGo
    /\ ret.err.wrap = "import request failed"
    /\ ret.err.text = BodyGo

\* C12: every request ExportPipe sends has the header Accept-Encoding:
\* identity, whatever the Filter.
C12_ExportAsksIdentity ==
    (op = "ExportPipe" /\ req[0] # NoReq) =>
        /\ "Accept-Encoding" \in DOMAIN req[0].header
        /\ req[0].header["Accept-Encoding"] = "identity"

\* C12's case: a Filter with no start and no end, and ExportPipe's request
\* has been sent
C12_Witness ==
    /\ op = "ExportPipe"
    /\ f.TimeStart.kind = "empty" /\ f.TimeEnd.kind = "empty"
    /\ DoCount(ev[0]) = 1
    /\ req[0].onWire
    /\ DOMAIN req[0].params = {"match[]"}

\* GetSourceTenants has returned
TenantsDone == op = "GetSourceTenants" /\ mpc = "return"

\* the exchange of executor 0 went through: a response with the status 200,
\* decoded, its body closed without error
TenantsExchangeGood ==
    /\ DoCount(ev[0]) = 1
    /\ out[0].err = Nil
    /\ out[0].status = 200
    /\ Decode(out[0].body, out[0].read).err = Nil
    /\ out[0].closeOK

\* C13: GetSourceTenants returns an error and no tenant list on any
\* transport, status or decode failure, and on a failure to close the body;
\* it returns the decoded list only for a status 200 response that decoded
\* and closed without error.
C13_TenantsAllOrNothing ==
    TenantsDone =>
        /\ ret.err = Nil <=> TenantsExchangeGood
        /\ ret.err # Nil => ret.val = <<>>
        /\ ret.err = Nil => ret.val = Decode(out[0].body, out[0].read).data

\* C13's case: status 200, the tenants decoded, closing the body failed, and
\* GetSourceTenants has returned the error with no list
C13_Witness ==
    /\ TenantsDone
    /\ out[0].err = Nil /\ out[0].status = 200
    /\ Decode(out[0].body, out[0].read).data # <<>>
    /\ ~out[0].closeOK
    /\ ret.err # Nil /\ ret.val = <<>>

\* the requests sent by the call so far
SentTotal == Cardinality({i \in DOMAIN ev : DoCount(ev[i]) > 0})

C14_AtMostOneSend ==
    /\ \A i \in DOMAIN ev : DoCount(ev[i]) <= 1
    /\ op # "Explore" => \A i \in DOMAIN ev : i # 0 => ev[i] = <<>>
    /\ op = "Explore" =>
         /\ ev[0] = <<>>
         /\ SentTotal <= Len(ranges)
         /\ \A i \in DOMAIN ev : DoCount(ev[i]) > 0 =>
              i \in Tasks /\ bnd[i] = TaskBounds(ranges, i)

\* an executor whose request was sent makes no further call on a request,
\* and one whose call of Client.do has returned never calls it again
C14_NoResend ==
    \A i \in DOMAIN ev :
        /\ ev[i] # <<>> => (i \in DOMAIN ev' /\ ev'[i] = ev[i])
        /\ pc[i] \in {"readall", "afterdo", "select", "done"} =>
             (i \in DOMAIN pc' /\ pc'[i] \notin {"do", "inflight"})

\* C14: no retries: a single-request operation sends at most one request per
\* call, Explore at most one per sub-range, and no request is sent again
\* after it failed.
C14_NoRetries == []C14_AtMostOneSend /\ [][C14_NoResend]_vars

\* C14's case: Explore has returned, the request of a sub-range was answered
\* with status 500, and it was sent once
C14_Witness ==
    /\ ExploreReturned /\ wpc = "done"
    /\ \E k \in Tasks : /\ out[k].err = Nil /\ out[k].status = 500
                        /\ ~doRet[k].ok
                        /\ DoCount(ev[k]) = 1

\* C15 as claimed: the failure of one task never cancels the context its
\* siblings share; that context is cancelled only by the caller's context or
\* after every task has returned.
C15_TaskErrorNeverCancels ==
    (op = "Explore" /\ groupCancelled) =>
        \/ parentCancelled
        \/ (spawned = Len(ranges) /\ \A k \in Tasks : pc[k] = "done")

\* C16: every Explore call returns, whatever the order in which its tasks
\* succeed, fail or give up their delivery.
C16_ExploreTerminates == (op = "Explore") ~> (mpc = "return")

\* C16's case: the caller never cancelled; one task failed, another gave up
\* the delivery of its decoded list, and Explore has returned
C16_Witness ==
    /\ ExploreReturned /\ wpc = "done"
    /\ ~parentCancelled
    /\ \E j, k \in Tasks :
         /\ ~doRet[j].ok /\ terr[j] # Nil
         /\ doRet[k].ok /\ response[k] # <<>> /\ terr[k] = ErrCanceled

\* the lists of the tasks ks, one after the other
RECURSIVE Concat(_)
Concat(ks) == IF ks = <<>> THEN <<>> ELSE response[Head(ks)] \o Concat(Tail(ks))

C17_ListIsDeliveries ==
    op = "Explore" =>
        /\ metricNames \o mn = Concat(delivered)
        /\ \A a, b \in DOMAIN delivered : delivered[a] = delivered[b] => a = b
        /\ (ExploreReturned /\ wpc = "done") => ret.val = Concat(delivered)

\* the list grows only in the range loop, by the list just received
C17_OnlyConsumerAppends ==
    metricNames' # metricNames =>
        /\ mpc = "append"
        /\ metricNames' = metricNames \o mn

\* C17: the list Explore returns is the concatenation, in delivery order, of
\* the lists delivered by the tasks: nothing lost, repeated or removed; no
\* step but the range loop's append changes the list.
C17_ConcatenationInDeliveryOrder ==
    []C17_ListIsDeliveries /\ [][C17_OnlyConsumerAppends]_vars

\* C17's case: the second range delivered first, both lists have "up", and
\* Explore has returned both in delivery order with "up" twice
C17_Witness ==
    /\ ExploreReturned
    /\ delivered = <<2, 1>>
    /\ response[2] = <<"go_info", "up">>
    /\ response[1] = <<"up">>
    /\ ret.val = <<"go_info", "up", "up">>

\* C18: on the status 204 path ImportPipe closes the response body itself,
\* and returns a failure of that close as an error although the status was
\* 204.
C18_ImportClosesBody ==
    (ImportDone /\ out[0].err = Nil /\ out[0].status = 204) =>
        /\ body[0] = "closed"
        /\ out[0].closeOK => ret.err = Nil
        /\ ~out[0].closeOK =>
             /\ ret.err # Nil
             /\ ret.err.wrap = "cannot close import response body"

\* C18's case: the destination answered 204, closing the body failed, and
\* ImportPipe has returned
C18_Witness ==
    /\ ImportDone
    /\ out[0].err = Nil /\ out[0].status = 204 /\ ~out[0].closeOK
    /\ doRet[0].ok
    /\ ret.err # Nil

C19_ClosedAfterAllTasks ==
    op = "Explore" =>
        /\ chClosed =>
             /\ spawned = Len(ranges)
             /\ \A k \in Tasks : pc[k] = "done"
             /\ wpc = "done"
        /\ (mpc = "return" /\ ret.err = Nil) => chClosed

\* the channel is closed by the waiting goroutine's one close and stays
\* closed; nothing is sent on a closed channel
C19_ClosedOnce ==
    /\ chClosed' # chClosed => (~chClosed /\ wpc = "close" /\ wpc' = "done")
    /\ wpc = "done" => wpc' = "done"
    /\ delivered' # delivered => (~chClosed /\ ~chClosed')

\* C19: the results channel is closed exactly once and only after all the
\* tasks have returned; no task sends after the close, and Explore does not
\* return its list before the close.
C19_ChannelClosedOnceAtTheEnd == []C19_ClosedAfterAllTasks /\ [][C19_ClosedOnce]_vars

\* C19's case: two tasks, one of them delivered, the channel closed and
\* Explore returned
C19_Witness ==
    /\ ExploreReturned
    /\ Len(ranges) = 2
    /\ Len(delivered) = 1
    /\ \E k \in Tasks : terr[k] # Nil
    /\ chClosed

\* C20 as claimed: when an operation has returned, every response body it
\* got is closed, but the body ExportPipe hands to its caller.
C20_EveryBodyClosed ==
    (mpc = "return" /\ (op = "Explore" => wpc \in {"none", "done"})) =>
        \A i \in DOMAIN body :
            \/ body[i] \in {"none", "closed"}
            \/ (op = "ExportPipe" /\ i = 0 /\ ret.stream /\ body[i] = "open")

=============================================================================
